---- MODULE Spec2Model ----
(***************************************************************************)
(* elysia-paseto: the paseto() plugin factory of src/index.ts, its sign    *)
(* and verify decorators, and the boundary of the paseto-ts/v4 primitive   *)
(* they call.                                                              *)
(*                                                                         *)
(* Strings are sequences of symbols: one-character strings, plus the       *)
(* literal words of the source ("k4.local.", "v4.local.", the unit names)  *)
(* as single symbols where they stand at a fixed place.  A JavaScript      *)
(* value whose type the code inspects is a record with a "type" field.     *)
(* Time is in whole seconds since the epoch of the run.                    *)
(***************************************************************************)
EXTENDS Integers, Sequences, FiniteSets, TLC

VARIABLES
    inst,      \* the plugin instance: closure of paseto() (secretKey, exp, defaultExpiration)
    now,       \* the wall clock, Date.now() in seconds
    ticks,     \* how many times the clock has advanced
    issued,    \* the token the latest successful sign returned, with the claims and time of its call
    last,      \* the outcome of the latest paseto/sign/verify call since the clock last advanced
    expired    \* the issued tokens some verify call has rejected at or after their expiry

vars == <<inst, now, ticks, issued, last, expired>>

(***************************************************************************)
(* Bounds of the model.                                                    *)
(***************************************************************************)
MaxTicks == 2

(***************************************************************************)
(* Strings.                                                                *)
(***************************************************************************)
startsWith(s, p) == Len(s) >= Len(p) /\ SubSeq(s, 1, Len(p)) = p

Digits == <<"0", "1", "2", "3", "4", "5", "6", "7", "8", "9">>

IsDigit(c) == \E i \in 1..10 : Digits[i] = c

DigitValue(c) == (CHOOSE i \in 1..10 : Digits[i] = c) - 1

\* parseInt of a non-empty run of decimal digits
RECURSIVE ParseDigits(_)
ParseDigits(ds) ==
    IF ds = <<>> THEN 0
    ELSE 10 * ParseDigits(SubSeq(ds, 1, Len(ds) - 1)) + DigitValue(ds[Len(ds)])

\* String(n) of a natural number
RECURSIVE NatToString(_)
NatToString(n) ==
    IF n < 10 THEN <<Digits[n + 1]>>
    ELSE NatToString(n \div 10) \o <<Digits[(n % 10) + 1]>>

\* `${n}` of an integer
NumberToString(n) == IF n < 0 THEN <<"-">> \o NatToString(0 - n) ELSE NatToString(n)

(***************************************************************************)
(* JavaScript values of the options.                                       *)
(***************************************************************************)
Undefined == [type |-> "undefined", n |-> 0, s |-> <<>>]
Num(n) == [type |-> "number", n |-> n, s |-> <<>>]
Str(s) == [type |-> "string", n |-> 0, s |-> s]

\* ToBoolean: undefined, 0 and "" are falsy
Truthy(v) ==
    CASE v.type = "undefined" -> FALSE
      [] v.type = "number" -> v.n # 0
      [] v.type = "string" -> v.s # <<>>

(***************************************************************************)
(* convertExpiration, src/index.ts:44-69.  The result is the string it     *)
(* returns, or a throw.                                                    *)
(***************************************************************************)
units(c) ==
    CASE c = "s" -> "seconds"
      [] c = "m" -> "minutes"
      [] c = "h" -> "hours"
      [] c = "d" -> "days"
      [] c = "w" -> "weeks"

\* exp.match(/^(\d+)([smhdw])$/)
ExpMatch(s) ==
    /\ Len(s) >= 2
    /\ s[Len(s)] \in {"s", "m", "h", "d", "w"}
    /\ \A i \in 1..(Len(s) - 1) : IsDigit(s[i])

Returned(s) == [threw |-> FALSE, s |-> s]
Threw == [threw |-> TRUE, s |-> <<>>]

\* convertExpiration that tests the hours before the days
convertExpiration_HoursFirst(exp) ==
    IF exp.type = "number"
    THEN IF exp.n % 3600 = 0 THEN Returned(NumberToString(exp.n \div 3600) \o <<" ", "hours">>)
         ELSE IF exp.n % 86400 = 0 THEN Returned(NumberToString(exp.n \div 86400) \o <<" ", "days">>)
         ELSE IF exp.n % 60 = 0 THEN Returned(NumberToString(exp.n \div 60) \o <<" ", "minutes">>)
         ELSE Returned(NumberToString(exp.n) \o <<" ", "seconds">>)
    ELSE IF ~ExpMatch(exp.s) THEN Threw
         ELSE Returned(SubSeq(exp.s, 1, Len(exp.s) - 1) \o <<" ", units(exp.s[Len(exp.s)])>>)

convertExpiration(exp) ==
    IF exp.type = "number"
    THEN IF exp.n % 86400 = 0 THEN Returned(NumberToString(exp.n \div 86400) \o <<" ", "days">>)
         ELSE IF exp.n % 3600 = 0 THEN Returned(NumberToString(exp.n \div 3600) \o <<" ", "hours">>)
         ELSE IF exp.n % 60 = 0 THEN Returned(NumberToString(exp.n \div 60) \o <<" ", "minutes">>)
         ELSE Returned(NumberToString(exp.n) \o <<" ", "seconds">>)
    ELSE IF ~ExpMatch(exp.s) THEN Threw
         ELSE Returned(SubSeq(exp.s, 1, Len(exp.s) - 1) \o <<" ", units(exp.s[Len(exp.s)])>>)

(***************************************************************************)
(* prepareSecret, src/index.ts:75-98.                                      *)
(***************************************************************************)
K4Local == <<"k4.local.">>

KeyBytes == 32

\* TextEncoder.encode of one character: its UTF-8 bytes
Utf8(c) ==
    CASE c = "a" -> <<97>>
      [] c = "b" -> <<98>>
      [] c = "k" -> <<107>>
      [] c = "NUL" -> <<0>>
      [] c = "U+00E9" -> <<195, 169>>

RECURSIVE encode(_)
encode(s) == IF s = <<>> THEN <<>> ELSE Utf8(Head(s)) \o encode(Tail(s))

Base64UrlAlphabet ==
    << "A", "B", "C", "D", "E", "F", "G", "H", "I", "J", "K", "L", "M",
       "N", "O", "P", "Q", "R", "S", "T", "U", "V", "W", "X", "Y", "Z",
       "a", "b", "c", "d", "e", "f", "g", "h", "i", "j", "k", "l", "m",
       "n", "o", "p", "q", "r", "s", "t", "u", "v", "w", "x", "y", "z",
       "0", "1", "2", "3", "4", "5", "6", "7", "8", "9", "-", "_" >>

Sextet(v) == Base64UrlAlphabet[(v % 64) + 1]

\* Buffer.toString("base64url"): three bytes to four characters, no padding
RECURSIVE Base64Url(_)
Base64Url(bytes) ==
    CASE Len(bytes) = 0 -> <<>>
      [] Len(bytes) = 1 ->
            LET v == bytes[1] * 16
            IN  <<Sextet(v \div 64), Sextet(v)>>
      [] Len(bytes) = 2 ->
            LET v == bytes[1] * 1024 + bytes[2] * 4
            IN  <<Sextet(v \div 4096), Sextet(v \div 64), Sextet(v)>>
      [] OTHER ->
            LET v == bytes[1] * 65536 + bytes[2] * 256 + bytes[3]
            IN  <<Sextet(v \div 262144), Sextet(v \div 4096), Sextet(v \div 64), Sextet(v)>>
                    \o Base64Url(SubSeq(bytes, 4, Len(bytes)))

prepareSecret(secret) ==
    IF startsWith(secret, K4Local) THEN secret
    ELSE LET secretBytes == encode(secret)
             keyBytes ==
                 IF Len(secretBytes) < KeyBytes
                 THEN [i \in 1..KeyBytes |-> IF i <= Len(secretBytes) THEN secretBytes[i] ELSE 0]
                 ELSE IF Len(secretBytes) > KeyBytes
                 THEN SubSeq(secretBytes, 1, KeyBytes)
                 ELSE secretBytes
         IN  K4Local \o Base64Url(keyBytes)

(***************************************************************************)
(* paseto, src/index.ts:100-110: the values the returned decorators close  *)
(* over, or the throw of the factory.                                      *)
(***************************************************************************)
NoInstance == [state |-> "none", secretKey |-> <<>>, exp |-> Undefined, defaultExpiration |-> <<>>]
Failed == [state |-> "threw", secretKey |-> <<>>, exp |-> Undefined, defaultExpiration |-> <<>>]
Instance(secretKey, exp, defaultExpiration) ==
    [state |-> "ready", secretKey |-> secretKey, exp |-> exp, defaultExpiration |-> defaultExpiration]

\* paseto without the check of the secret
paseto_NoSecretCheck(options) ==
    LET secret == options.secret
        exp == options.exp
    IN  IF Truthy(exp)
        THEN LET d == convertExpiration(exp)
             IN  IF d.threw THEN Failed
                 ELSE Instance(prepareSecret(secret.s), exp, d.s)
        ELSE Instance(prepareSecret(secret.s), exp, <<"1", " ", "hour">>)

paseto(options) ==
    LET secret == options.secret
        exp == options.exp
    IN  IF ~Truthy(secret) THEN Failed
        ELSE IF Truthy(exp)
             THEN LET d == convertExpiration(exp)
                  IN  IF d.threw THEN Failed
                      ELSE Instance(prepareSecret(secret.s), exp, d.s)
             ELSE Instance(prepareSecret(secret.s), exp, <<"1", " ", "hour">>)

(***************************************************************************)
(* Claim sets.  A payload is a function from its keys to their values.     *)
(* The value of a temporal claim (exp, iat, nbf) is a string: an ISO 8601  *)
(* timestamp, held as the instant it names, or any other text.             *)
(***************************************************************************)
Iso(t) == [fmt |-> "iso", t |-> t, s |-> <<>>]
Text(s) == [fmt |-> "text", t |-> 0, s |-> s]

EmptyPayload == <<>>

Has(p, k) == k \in DOMAIN p

\* payload.k is present and not the empty string
HasTruthy(p, k) == Has(p, k) /\ (p[k].fmt = "iso" \/ p[k].s # <<>>)

Put(p, k, v) == [x \in (DOMAIN p) \cup {k} |-> IF x = k THEN v ELSE p[x]]

TemporalKeys == {"exp", "iat", "nbf"}

(***************************************************************************)
(* The paseto-ts/v4 primitive, at its boundary (spec sections 4.4, 4.5     *)
(* and 6).  A token string is its text followed by the encoding of a       *)
(* sealed box; the box keeps the key and the claims it was sealed with.    *)
(***************************************************************************)
V4Local == <<"v4.local.">>

NoBox == [k |-> <<>>, p |-> EmptyPayload, intact |-> FALSE]
Box(key, p) == [k |-> key, p |-> p, intact |-> TRUE]

TokenString(text, sealed) == [present |-> TRUE, text |-> text, sealed |-> sealed]
Absent == [present |-> FALSE, text |-> <<>>, sealed |-> NoBox]

\* the primitive's key format: "k4.local." and the base64url text of 32 bytes
ValidKey(key) ==
    /\ startsWith(key, K4Local)
    /\ Len(key) = 1 + ((KeyBytes * 8 + 5) \div 6)
    /\ \A i \in 2..Len(key) : \E j \in 1..64 : Base64UrlAlphabet[j] = key[i]

UnitSeconds(u) ==
    CASE u \in {"second", "seconds"} -> 1
      [] u \in {"minute", "minutes"} -> 60
      [] u \in {"hour", "hours"} -> 3600
      [] u \in {"day", "days"} -> 86400
      [] u \in {"week", "weeks"} -> 604800

RelativeUnits ==
    {"second", "seconds", "minute", "minutes", "hour", "hours", "day", "days", "week", "weeks"}

\* the magnitude of a relative time: the text before the unit, less one space
Magnitude(s) ==
    LET body == SubSeq(s, 1, Len(s) - 1)
    IN  IF body # <<>> /\ body[Len(body)] = " " THEN SubSeq(body, 1, Len(body) - 1) ELSE body

\* a relative time: digits, an optional space, a unit word
IsRelativeTime(s) ==
    /\ Len(s) >= 2
    /\ s[Len(s)] \in RelativeUnits
    /\ Magnitude(s) # <<>>
    /\ \A i \in 1..Len(Magnitude(s)) : IsDigit(Magnitude(s)[i])

RelativeSeconds(s) == ParseDigits(Magnitude(s)) * UnitSeconds(s[Len(s)])

\* a registered claim is well formed: a timestamp or a relative time
ValidClaim(v) == v.fmt = "iso" \/ IsRelativeTime(v.s)

\* relative times become absolute timestamps
Absolute(v, t) == IF v.fmt = "iso" THEN v ELSE Iso(t + RelativeSeconds(v.s))

EncryptOptions(addIat, addExp, validatePayload) ==
    [addIat |-> addIat, addExp |-> addExp, validatePayload |-> validatePayload]

Sealed(token) == [threw |-> FALSE, token |-> token]
EncryptThrew == [threw |-> TRUE, token |-> Absent]

encrypt(key, payload, options, t) ==
    LET temporal == (DOMAIN payload) \cap TemporalKeys
        converted ==
            [x \in DOMAIN payload |->
                IF x \in temporal /\ ValidClaim(payload[x]) THEN Absolute(payload[x], t)
                ELSE payload[x]]
        withIat ==
            IF options.addIat /\ ~Has(converted, "iat") THEN Put(converted, "iat", Iso(t))
            ELSE converted
        withExp ==
            IF options.addExp /\ ~Has(withIat, "exp")
            THEN Put(withIat, "exp", Iso(t + UnitSeconds("hour")))
            ELSE withIat
    IN  IF ~ValidKey(key) THEN EncryptThrew
        ELSE IF options.validatePayload /\ \E x \in temporal : ~ValidClaim(payload[x])
        THEN EncryptThrew
        ELSE Sealed(TokenString(V4Local, Box(key, withExp)))

Opened(p) == [threw |-> FALSE, payload |-> p]
DecryptThrew == [threw |-> TRUE, payload |-> EmptyPayload]

\* the temporal validation of spec section 4.5, step 4
Expired(p, t) == Has(p, "exp") /\ p["exp"].fmt = "iso" /\ t >= p["exp"].t
NotYetValid(p, t) == Has(p, "nbf") /\ p["nbf"].fmt = "iso" /\ t < p["nbf"].t

decrypt(key, token, validatePayload, t) ==
    IF ~ValidKey(key) THEN DecryptThrew
    ELSE IF token.text # V4Local \/ ~token.sealed.intact \/ token.sealed.k # key
    THEN DecryptThrew
    ELSE IF validatePayload /\ (Expired(token.sealed.p, t) \/ NotYetValid(token.sealed.p, t))
    THEN DecryptThrew
    ELSE Opened(token.sealed.p)

(***************************************************************************)
(* sign, src/index.ts:118-134.                                             *)
(***************************************************************************)
\* sign without the issued-at request
sign_NoIat(self, payload, t) ==
    LET tokenPayload ==
            IF ~HasTruthy(payload, "exp") /\ Truthy(self.exp)
            THEN Put(payload, "exp", Text(self.defaultExpiration))
            ELSE payload
    IN  encrypt(self.secretKey, tokenPayload,
                EncryptOptions(FALSE, ~HasTruthy(payload, "exp"), TRUE), t)

\* sign that sets the default expiry over the caller's
sign_DefaultOverCaller(self, payload, t) ==
    LET tokenPayload ==
            IF Truthy(self.exp)
            THEN Put(payload, "exp", Text(self.defaultExpiration))
            ELSE payload
    IN  encrypt(self.secretKey, tokenPayload,
                EncryptOptions(TRUE, ~HasTruthy(payload, "exp"), TRUE), t)

sign(self, payload, t) ==
    LET tokenPayload ==
            IF ~HasTruthy(payload, "exp") /\ Truthy(self.exp)
            THEN Put(payload, "exp", Text(self.defaultExpiration))
            ELSE payload
    IN  encrypt(self.secretKey, tokenPayload,
                EncryptOptions(TRUE, ~HasTruthy(payload, "exp"), TRUE), t)

\* the caller's object once sign has run: tokenPayload is a copy of it
\* (line 119), and the default expiry is assigned to the copy (line 124)
payloadAfter(self, payload) == payload

(***************************************************************************)
(* verify, src/index.ts:139-159.  The outcome is what the promise settles  *)
(* to, with the number of calls of decrypt the call made.                  *)
(***************************************************************************)
False == [kind |-> "false", payload |-> EmptyPayload]
Claims(p) == [kind |-> "payload", payload |-> p]
Raised == [kind |-> "raised", payload |-> EmptyPayload]

Outcome(value, decrypts) == [value |-> value, decrypts |-> decrypts]

\* !token: undefined, or the empty string
Falsy(token) == ~token.present \/ (token.text = <<>> /\ token.sealed = NoBox)

\* verify that asks for no validation of the registered claims
verify_NoValidate(self, token, t) ==
    IF Falsy(token) THEN Outcome(False, 0)
    ELSE IF ~startsWith(token.text, V4Local) THEN Outcome(False, 0)
    ELSE LET result == decrypt(self.secretKey, token, FALSE, t)
         IN  IF result.threw THEN Outcome(False, 1)
             ELSE Outcome(Claims(result.payload), 1)

\* verify without the prefix check
verify_NoPrefixCheck(self, token, t) ==
    IF Falsy(token) THEN Outcome(False, 0)
    ELSE LET result == decrypt(self.secretKey, token, TRUE, t)
         IN  IF result.threw THEN Outcome(False, 1)
             ELSE Outcome(Claims(result.payload), 1)

\* verify without the try/catch around decrypt
verify_NoCatch(self, token, t) ==
    IF Falsy(token) THEN Outcome(False, 0)
    ELSE IF ~startsWith(token.text, V4Local) THEN Outcome(False, 0)
    ELSE LET result == decrypt(self.secretKey, token, TRUE, t)
         IN  IF result.threw THEN Outcome(Raised, 1)
             ELSE Outcome(Claims(result.payload), 1)

\* verify that returns the claims of a token it remembers as signed here
verify_Remembered(self, token, t) ==
    IF Falsy(token) THEN Outcome(False, 0)
    ELSE IF ~startsWith(token.text, V4Local) THEN Outcome(False, 0)
    ELSE IF \E i \in issued : i.token = token THEN Outcome(Claims(token.sealed.p), 0)
    ELSE LET result == decrypt(self.secretKey, token, TRUE, t)
         IN  IF result.threw THEN Outcome(False, 1)
             ELSE Outcome(Claims(result.payload), 1)

verify(self, token, t) ==
    IF Falsy(token) THEN Outcome(False, 0)
    ELSE IF ~startsWith(token.text, V4Local) THEN Outcome(False, 0)
    ELSE LET result == decrypt(self.secretKey, token, TRUE, t)
         IN  IF result.threw THEN Outcome(False, 1)
             ELSE Outcome(Claims(result.payload), 1)

(***************************************************************************)
(* The inputs the environment draws from.                                  *)
(***************************************************************************)
Repeat(c, n) == [i \in 1..n |-> c]

Secrets ==
    { Undefined,
      Str(<<>>),
      Str(<<"a", "b">>),
      Str(K4Local \o <<"a">>) }

ExpOptions ==
    { Undefined,
      Num(0), Num(60), Num(-5),
      Str(<<>>), Str(<<"1", "s">>), Str(<<"1", "w">>), Str(<<"3", "x">>) }

Options == [secret : Secrets, exp : ExpOptions]

NoOptions == [secret |-> Undefined, exp |-> Undefined]

UserClaims ==
    { [k \in {"id"} |-> "user123"],
      [k \in {"id", "role"} |-> IF k = "id" THEN "user123" ELSE "admin"] }

\* the claim sets a caller passes to sign at time t
Payloads(t) ==
    UserClaims
    \cup { [k \in {"id"} |-> "user123"] @@ [k \in {"exp"} |-> Iso(t + 7200)],
           [k \in {"id"} |-> "user123"] @@ [k \in {"exp"} |-> Text(<<"s", "o", "o", "n">>)],
           [k \in {"id"} |-> "user123"] @@ [k \in {"iat"} |-> Iso(t - 1)],
           [k \in {"id"} |-> "user123"] @@ [k \in {"nbf"} |-> Iso(t + 10)] }

\* the strings a caller passes to verify that no sign call returned
Malformed ==
    { Absent,
      TokenString(<<>>, NoBox),
      TokenString(<<"v3.local.", "x">>, NoBox),
      TokenString(V4Local, NoBox),
      TokenString(V4Local \o <<"s">>, NoBox) }

\* a token of another version: well formed, with the wrong prefix
WrongVersion(token) == TokenString(<<"v3.local.">>, token.sealed)

(***************************************************************************)
(* The state machine.                                                      *)
(***************************************************************************)
NoCall ==
    [op |-> "none", options |-> NoOptions, claims |-> EmptyPayload,
     caller |-> EmptyPayload, input |-> Absent,
     threw |-> FALSE, token |-> Absent, value |-> False, decrypts |-> 0, at |-> 0]

Init ==
    /\ inst = NoInstance
    /\ now = 0
    /\ ticks = 0
    /\ issued = {}
    /\ last = NoCall
    /\ expired = {}

\* paseto(options)
Paseto(o) ==
    /\ inst.state = "none"
    /\ inst' = paseto(o)
    /\ last' = [NoCall EXCEPT !.op = "paseto", !.options = o,
                              !.threw = (paseto(o).state = "threw"), !.at = now]
    /\ UNCHANGED <<now, ticks, issued, expired>>

\* await sign(c)
Sign(c) ==
    /\ inst.state = "ready"
    /\ LET r == sign(inst, c, now)
       IN  /\ last' = [NoCall EXCEPT !.op = "sign", !.claims = c,
                                     !.caller = payloadAfter(inst, c), !.threw = r.threw,
                                     !.token = r.token, !.at = now]
           /\ issued' = IF r.threw THEN issued
                        ELSE {[token |-> r.token, claims |-> c, at |-> now]}
           /\ expired' = IF r.threw THEN expired ELSE {}
    /\ UNCHANGED <<inst, now, ticks>>

\* await verify(tok)
Verify(tok) ==
    /\ inst.state = "ready"
    /\ LET r == verify(inst, tok, now)
       IN  /\ last' = [NoCall EXCEPT !.op = "verify", !.input = tok, !.value = r.value,
                                     !.threw = (r.value.kind = "raised"),
                                     !.decrypts = r.decrypts, !.at = now]
           /\ expired' = IF r.value.kind = "false" /\ tok.sealed.intact
                            /\ Expired(tok.sealed.p, now)
                         THEN expired \cup {tok} ELSE expired
    /\ UNCHANGED <<inst, now, ticks, issued>>

\* the instants named by the temporal claims of the issued tokens
Instants ==
    UNION { { i.token.sealed.p[k].t : k \in TemporalKeys \cap DOMAIN i.token.sealed.p } :
            i \in issued }

Tick(t) ==
    /\ ticks < MaxTicks
    /\ t > now
    /\ now' = t
    /\ ticks' = ticks + 1
    /\ last' = NoCall
    /\ UNCHANGED <<inst, issued, expired>>

Next ==
    \/ \E o \in Options : Paseto(o)
    \/ \E c \in Payloads(now) : Sign(c)
    \/ \E i \in issued : Verify(i.token)
    \/ \E tok \in Malformed : Verify(tok)
    \/ \E i \in issued : Verify(WrongVersion(i.token))
    \/ \E t \in {now + 1} \cup Instants \cup {i - 1 : i \in Instants} : Tick(t)

Spec == Init /\ [][Next]_vars

(***************************************************************************)
(* Properties.                                                             *)
(***************************************************************************)
\* the latest call was verify of the token of issue i
VerifiedNow(i) == last.op = "verify" /\ last.input = i.token

\* the claims a token carries
Carried(i) == i.token.sealed.p

C2_NeverExpires ==
    \A i \in issued :
        (inst.exp.type = "undefined" /\ ~Has(i.claims, "exp") /\ ~Has(i.claims, "nbf"))
        => /\ ~Has(Carried(i), "exp")
           /\ (VerifiedNow(i) => last.value.kind = "payload")

\* the duration an accepted exp option stands for, in seconds
LetterSeconds(c) ==
    CASE c = "s" -> 1
      [] c = "m" -> 60
      [] c = "h" -> 60 * 60
      [] c = "d" -> 24 * 60 * 60
      [] c = "w" -> 7 * 24 * 60 * 60

ConfiguredSeconds(exp) ==
    IF exp.type = "number" THEN exp.n
    ELSE ParseDigits(SubSeq(exp.s, 1, Len(exp.s) - 1)) * LetterSeconds(exp.s[Len(exp.s)])

AcceptedDuration(exp) ==
    \/ exp.type = "number" /\ exp.n >= 0
    \/ exp.type = "string" /\ Len(exp.s) >= 2
          /\ exp.s[Len(exp.s)] \in {"s", "m", "h", "d", "w"}
          /\ \A j \in 1..(Len(exp.s) - 1) : exp.s[j] \in {Digits[d] : d \in 1..10}

\* C3: with a default duration D configured (a non-negative number of
\* seconds, 0 included, or digits and one of s, m, h, d, w) and claims
\* without an exp, the token signed at time t carries the expiry t + D.
C3_DefaultExpiry ==
    \A i \in issued :
        (AcceptedDuration(inst.exp) /\ ~Has(i.claims, "exp"))
        => /\ Has(Carried(i), "exp")
           /\ Carried(i)["exp"] = Iso(i.at + ConfiguredSeconds(inst.exp))

\* C4: a caller's expiry overrides the default.  On an instance with a
\* default duration, claims with exp = T yield a token whose expiry is T, and
\* verify before T returns claims whose exp is T.
C4_CallerExpiryOverrides ==
    \A i \in issued :
        (Truthy(inst.exp) /\ Has(i.claims, "exp") /\ i.claims["exp"].fmt = "iso")
        => /\ Carried(i)["exp"] = i.claims["exp"]
           /\ (VerifiedNow(i) /\ now < i.claims["exp"].t)
              => (last.value.kind = "payload" /\ last.value.payload["exp"] = i.claims["exp"])

C4_Witness ==
    \E i \in issued :
        /\ Truthy(inst.exp)
        /\ Has(i.claims, "exp")
        /\ i.claims["exp"].fmt = "iso"
        /\ i.claims["exp"].t # i.at + ConfiguredSeconds(inst.exp)
        /\ VerifiedNow(i)
        /\ now > i.at
        /\ last.value.kind = "payload"
        /\ last.value.payload["exp"] = i.claims["exp"]

\* C5: the issued-at claim is the signer's.  The iat a token carries is the
\* time of the sign call, also when the claims passed to sign hold an iat.
C5_IssuedAtInjected ==
    \A i \in issued : Has(Carried(i), "iat") /\ Carried(i)["iat"] = Iso(i.at)

\* C6: expiry is enforced.  verify of a token whose claims hold an expiry E
\* returns false at every time at or after E, and a token once rejected as
\* expired is rejected by every later verify.
C6_ExpiryEnforced ==
    /\ \A i \in issued :
          (VerifiedNow(i) /\ Has(Carried(i), "exp") /\ now >= Carried(i)["exp"].t)
          => last.value = False
    /\ \A tok \in expired : verify(inst, tok, now).value = False

C6_Witness ==
    \E tok \in expired :
        /\ last.op = "verify"
        /\ last.input = tok
        /\ last.value = False
        /\ now > tok.sealed.p["exp"].t

\* C7: not-before is enforced.  verify of a token that carries a not-before
\* N returns false at every time before N, and returns the claims from N on
\* while the token has not expired.
C7_NotBeforeEnforced ==
    \A i \in issued :
        (VerifiedNow(i) /\ Has(Carried(i), "nbf"))
        => /\ now < Carried(i)["nbf"].t => last.value = False
           /\ (/\ now >= Carried(i)["nbf"].t
               /\ ~(Has(Carried(i), "exp") /\ now >= Carried(i)["exp"].t))
              => last.value.kind = "payload"

C7_Witness ==
    \E i \in issued :
        /\ VerifiedNow(i)
        /\ Has(i.claims, "nbf")
        /\ i.claims["nbf"].t > i.at
        /\ now = i.claims["nbf"].t
        /\ last.value.kind = "payload"

\* the string begins with "v4.local."
BeginsV4(token) == token.text # <<>> /\ token.text[1] = "v4.local."

\* C8: the format gate.  verify of an absent or empty input, or of a string
\* that does not begin with "v4.local.", returns false without a call of
\* decrypt; decrypt is called only for a present string with that prefix.
C8_FormatGate ==
    last.op = "verify"
    => /\ (~last.input.present \/ ~BeginsV4(last.input))
          => (last.value = False /\ last.decrypts = 0)
       /\ last.decrypts > 0 => (last.input.present /\ BeginsV4(last.input))

C8_Witness ==
    \E i \in issued :
        /\ last.op = "verify"
        /\ last.input = WrongVersion(i.token)
        /\ last.value = False
        /\ last.decrypts = 0

\* C9: verify never raises and rejects uniformly.  It resolves to the one
\* value false, with no claim data, or to the claims the token carries; a
\* failure of decrypt does not leave verify.
C9_VerifyTotal ==
    last.op = "verify"
    => /\ ~last.threw
       /\ \/ last.value = False
          \/ /\ last.value.kind = "payload"
             /\ last.input.sealed.intact
             /\ last.value.payload = last.input.sealed.p

C9_Witness ==
    /\ last.op = "verify"
    /\ BeginsV4(last.input)
    /\ ~last.input.sealed.intact
    /\ last.decrypts = 1
    /\ last.value = False

\* C10: sign never fails on an instance that paseto() returned: for every
\* claim set, with or without exp, iat or nbf of the caller, it resolves to a
\* token.
C10_SignNeverFails == last.op = "sign" => ~last.threw

(***************************************************************************)
(* Single scenarios.  Each step runs one scenario from the initial state   *)
(* and records it: a construction, a conversion, or a sign on one instance *)
(* followed at once by a verify.                                           *)
(***************************************************************************)
OneHour == Str(<<"1", "h">>)

\* secrets that differ as strings; some of them derive the same key
CrossSecrets ==
    { Str(<<"a", "b">>),
      Str(<<"a", "b", "NUL">>),
      Str(<<"b", "a">>),
      Str(<<"U+00E9">>),
      Str(Repeat("a", KeyBytes)),
      Str(Repeat("a", KeyBytes) \o <<"b">>),
      Str(Repeat("a", KeyBytes - 1) \o <<"b">>),
      Str(prepareSecret(<<"a", "b">>)),
      Str(K4Local \o <<"a">>) }

\* sign on the instance of secret s1, verify on the instance of secret s2
Cross(s1, s2, c) ==
    /\ inst.state = "none"
    /\ last.op = "none"
    /\ LET signer == paseto([secret |-> s1, exp |-> OneHour])
           verifier == paseto([secret |-> s2, exp |-> OneHour])
           signed == IF signer.state = "ready" THEN sign(signer, c, now) ELSE EncryptThrew
           done == ~signed.threw /\ verifier.state = "ready"
           outcome == IF done THEN verify(verifier, signed.token, now) ELSE Outcome(False, 0)
       IN  last' = [op |-> "cross", secrets |-> <<s1, s2>>,
                    keys |-> <<signer.secretKey, verifier.secretKey>>,
                    claims |-> c, done |-> done, value |-> outcome.value]
    /\ UNCHANGED <<inst, now, ticks, issued, expired>>

\* the options of a construction
WideSecrets == CrossSecrets \cup {Undefined, Str(<<>>)}

WideExpOptions ==
    ExpOptions
    \cup { Num(-1), Num(-60), Num(-86400), Num(1), Num(90), Num(3600), Num(86400) }
    \cup { Str(<<"d">>), Str(<<"1", "0">>), Str(<<"1", "x">>), Str(<<"1", " ", "h">>),
           Str(<<"1", "h", "h">>), Str(<<"-", "1", "s">>), Str(<<"1", "H">>),
           Str(<<" ", "1", "h">>), Str(<<"1", ".", "5", "h">>), Str(<<"h", "1">>),
           Str(<<"0", "7", "d">>), Str(<<"3", "0", "m">>), Str(<<"2", "4", "h">>) }

WideOptions == [secret : WideSecrets, exp : WideExpOptions]

\* one construction
Construct(o) == last.op = "none" /\ Paseto(o)

\* the ways a caller alters the part of a token after "v4.local.": one
\* character changed to another of the alphabet, the tail replaced by
\* characters outside it, the end cut off, all of it cut off
Alterations == {"changed", "replaced", "shortened", "emptied"}

\* the altered string as the primitive sees it: no alteration leaves the
\* authenticated ciphertext intact
Altered(token, how) ==
    CASE how = "changed" -> TokenString(token.text, [token.sealed EXCEPT !.intact = FALSE])
      [] how = "replaced" -> TokenString(token.text \o <<"!">>, [token.sealed EXCEPT !.intact = FALSE])
      [] how = "shortened" -> TokenString(token.text, [token.sealed EXCEPT !.intact = FALSE])
      [] how = "emptied" -> TokenString(token.text, NoBox)

TamperOptions ==
    [secret : {Str(<<"a", "b">>), Str(Repeat("a", KeyBytes) \o <<"b">>)},
     exp : {Undefined, OneHour}]

\* sign, alter the token, verify both the token and the altered one
Tamper(o, c, how) ==
    /\ inst.state = "none"
    /\ last.op = "none"
    /\ LET self == paseto(o)
           signed == IF self.state = "ready" THEN sign(self, c, now) ELSE EncryptThrew
           done == ~signed.threw
           control == IF done THEN verify(self, signed.token, now) ELSE Outcome(False, 0)
           outcome == IF done THEN verify(self, Altered(signed.token, how), now)
                      ELSE Outcome(False, 0)
       IN  last' = [op |-> "tamper", how |-> how, options |-> o,
                    claims |-> c, token |-> signed.token, done |-> done,
                    control |-> control.value, value |-> outcome.value]
    /\ UNCHANGED <<inst, now, ticks, issued, expired>>

\* the numbers of seconds a conversion is given
MaxMagnitude == 3

Seconds ==
    { k * m + r : k \in 0..MaxMagnitude, m \in {1, 60, 3600, 86400}, r \in {0, 1, 60, 3600} }
    \cup {300, 604800}

\* one call of convertExpiration with a number
Convert(n) ==
    /\ inst.state = "none"
    /\ last.op = "none"
    /\ LET r == convertExpiration(Num(n))
       IN  last' = [op |-> "convert", n |-> n, threw |-> r.threw, s |-> r.s]
    /\ UNCHANGED <<inst, now, ticks, issued, expired>>

ScenarioNext ==
    \/ \E o \in WideOptions : Construct(o)
    \/ \E s1 \in CrossSecrets, s2 \in CrossSecrets, c \in UserClaims : Cross(s1, s2, c)
    \/ \E o \in TamperOptions, c \in Payloads(now), how \in Alterations : Tamper(o, c, how)
    \/ \E n \in Seconds : Convert(n)

SpecScenarios == Init /\ [][ScenarioNext]_vars

\* C11 (as claimed): a token signed on the instance of secret S1 is rejected
\* by verify on the instance of any other secret S2.
C11_DifferentSecretRejected ==
    (last.op = "cross" /\ last.done /\ last.secrets[1] # last.secrets[2])
    => last.value = False

\* C11 (amended): a token signed on one instance is rejected by verify on
\* every instance that holds a different key.
C11_DifferentKeyRejected ==
    (last.op = "cross" /\ last.done /\ last.keys[1] # last.keys[2])
    => last.value = False

C11_Witness ==
    /\ last.op = "cross"
    /\ last.done
    /\ last.keys[1] # last.keys[2]
    /\ last.value = False

\* the index of a character in the base64url alphabet, 0 when it has none
Base64UrlIndex(c) ==
    IF \E j \in 1..64 : Base64UrlAlphabet[j] = c
    THEN CHOOSE j \in 1..64 : Base64UrlAlphabet[j] = c
    ELSE 0

\* "k4.local." followed by the canonical base64url text of exactly 32 bytes:
\* 43 characters, the last with its two spare bits clear
CanonicalKey(key) ==
    /\ Len(key) = 44
    /\ key[1] = "k4.local."
    /\ \A j \in 2..44 : Base64UrlIndex(key[j]) # 0
    /\ (Base64UrlIndex(key[44]) - 1) % 4 = 0

\* C12: the key an instance holds is "k4.local." and the canonical encoding
\* of exactly 32 bytes, for a derived secret and for one passed through.
C12_KeyCanonical == inst.state = "ready" => CanonicalKey(inst.secretKey)

\* digits followed by exactly one of s, m, h, d, w
WellFormedDuration(s) ==
    /\ Len(s) >= 2
    /\ s[Len(s)] \in {"s", "m", "h", "d", "w"}
    /\ \A j \in 1..(Len(s) - 1) : s[j] \in {Digits[d] : d \in 1..10}

\* C13: a string exp option that is not digits followed by one of s, m, h,
\* d, w, the empty string included, makes paseto() throw.
C13_InvalidExpThrows ==
    (last.op = "paseto" /\ last.options.exp.type = "string"
        /\ ~WellFormedDuration(last.options.exp.s))
    => (last.threw /\ inst.state = "threw")

\* C14: a negative number as exp option makes paseto() throw, so no
\* instance has a default duration of negative magnitude.
C14_NegativeExpThrows ==
    /\ (last.op = "paseto" /\ last.options.exp.type = "number" /\ last.options.exp.n < 0)
       => (last.threw /\ inst.state = "threw")
    /\ inst.state = "ready" => ~(inst.exp.type = "number" /\ inst.exp.n < 0)

\* C16: with the options absent, or a secret that is undefined or empty,
\* paseto() throws before a key is derived; sign and verify exist only on an
\* instance that holds a key.
C16_MissingSecretFatal ==
    /\ (last.op = "paseto"
          /\ (last.options.secret.type = "undefined" \/ last.options.secret.s = <<>>))
       => (last.threw /\ inst.state = "threw" /\ inst.secretKey = <<>>)
    /\ inst.state = "ready" => (inst.secretKey # <<>> /\ inst.secretKey[1] = "k4.local.")
    /\ last.op \in {"sign", "verify"} => inst.state = "ready"

C16_Witness ==
    /\ last.op = "paseto"
    /\ last.options.secret = Str(<<>>)
    /\ last.options.exp = Str(<<"1", "s">>)
    /\ last.threw
    /\ inst.state = "threw"

\* C15: a token of sign with any character after "v4.local." changed or
\* cut off is rejected by verify under the same key.
C15_TamperRejected == (last.op = "tamper" /\ last.done) => last.value = False

C15_Witness ==
    /\ last.op = "tamper"
    /\ last.done
    /\ last.how = "changed"
    /\ last.control.kind = "payload"
    /\ last.value = False

\* the length of a unit of the returned text, in seconds
UnitLength(u) ==
    CASE u = "days" -> 86400
      [] u = "hours" -> 3600
      [] u = "minutes" -> 60
      [] u = "seconds" -> 1

LargestExactUnit(n) ==
    IF n % 86400 = 0 THEN "days"
    ELSE IF n % 3600 = 0 THEN "hours"
    ELSE IF n % 60 = 0 THEN "minutes"
    ELSE "seconds"

\* C17: for a number n >= 0 of seconds the returned text is a magnitude, a
\* space and a unit, the unit the largest of days, hours, minutes, seconds
\* that divides n, and magnitude times the unit's length is n.
C17_LargestExactUnit ==
    last.op = "convert" =>
        /\ ~last.threw
        /\ Len(last.s) >= 3
        /\ last.s[Len(last.s) - 1] = " "
        /\ last.s[Len(last.s)] = LargestExactUnit(last.n)
        /\ \A j \in 1..(Len(last.s) - 2) : IsDigit(last.s[j])
        /\ ParseDigits(SubSeq(last.s, 1, Len(last.s) - 2)) * UnitLength(last.s[Len(last.s)])
             = last.n

C17_Witness ==
    /\ last.op = "convert"
    /\ last.n = 2 * 86400
    /\ last.s = <<"2", " ", "days">>

\* what a token is worth under a key at an instant: its claims when it is a
\* v4.local. token sealed under that key, unaltered, and the instant is
\* before its exp and not before its nbf; false otherwise
Worth(key, token, t) ==
    IF /\ token.present
       /\ token.text = V4Local
       /\ token.sealed.intact
       /\ token.sealed.k = key
       /\ \A x \in {"exp"} \cap DOMAIN token.sealed.p :
             token.sealed.p[x].fmt = "iso" => t < token.sealed.p[x].t
       /\ \A x \in {"nbf"} \cap DOMAIN token.sealed.p :
             token.sealed.p[x].fmt = "iso" => t >= token.sealed.p[x].t
    THEN Claims(token.sealed.p)
    ELSE False

====
